---- MODULE Spec2Model ----
(***************************************************************************)
(* Global Economic Dashboard (src/main.py, src/config.py).                 *)
(*                                                                         *)
(* The module models                                                       *)
(*   - the source fetcher fetch_country_data (request loop, per-pair       *)
(*     failure handling, inter-request delay, final sort),                 *)
(*   - the country directory fetch_all_countries with its cache,           *)
(*   - the chart binder create_chart and the title text it renders,        *)
(*   - the Dash callbacks that keep the session stores and the displayed   *)
(*     charts in step: fetch_and_display_data, update_chart_types,         *)
(*     store_chart_images, handle_file_upload, clear_all_data,             *)
(*   - the upload parser parse_uploaded_csv,                               *)
(*   - the exports export_to_csv and export_to_pdf behind handle_exports,  *)
(*     with the exports directory and the clock that names the files,      *)
(*   - the text of an exported CSV file, cell by cell, and its reading      *)
(*     back by the upload parser.                                          *)
(*                                                                         *)
(* Text is modelled as a sequence of tokens, so that str.split can be      *)
(* computed: a token is either a separator the code splits on (" - " or a  *)
(* chart emoji followed by a blank) or a piece of text without one.        *)
(***************************************************************************)
EXTENDS Integers, Sequences, FiniteSets, TLC

VARIABLES
    \* session stores and components of the page (src/main.py:397, 433-437)
    data_store,           \* dcc.Store "data-store": the dataset, a sequence of records
    imported_data_store,  \* dcc.Store "imported-data-store": the pending import buffer
    ui_state_store,       \* dcc.Store "ui-state-store": the view state
    chart_images_store,   \* dcc.Store "chart-images-store": entries for the PDF export
    charts_container,     \* children of "charts-container": the displayed chart cards
    use_imported_disabled,\* "disabled" of the button "use-imported-btn"
    upload_status,        \* children of "upload-status": the notice of the last upload
    export_status,        \* children of "export-status": the notice of the last export
    discarded,            \* history: the dataset the last user event discarded, by a
                          \* reset or by a display that left the store empty
    triggered,            \* callback_context of the callback the last user event set
                          \* off: the triggering property and the State values read
    \* country directory (src/main.py:42-43) and the wall clock it reads
    countries_cache,      \* _countries_cache
    cache_timestamp,      \* _cache_timestamp, in seconds
    now,                  \* datetime.now(), in seconds
    dir_call,             \* the last call of fetch_all_countries: what it did and returned
    \* one run of fetch_country_data on drawn inputs
    f_pc, f_args, f_src, f_out,
    \* one run of handle_file_upload on a drawn file
    u_pc, u_file, u_out,
    \* one call of create_chart on drawn arguments
    c_pc, c_args, c_out,
    \* one export of a drawn dataset to CSV and the upload of the written file
    r_pc, r_df, r_out,
    \* the exports directory and the last export made
    exports_dir,          \* the paths of the files under exports/
    last_export,          \* history: what the last export was handed and returned
    exports_made          \* history: the number of export clicks so far

uiVars == <<data_store, imported_data_store, ui_state_store, chart_images_store,
            charts_container, use_imported_disabled, upload_status, export_status,
            discarded, triggered>>
dirVars == <<countries_cache, cache_timestamp, now, dir_call>>
fetchVars == <<f_pc, f_args, f_src, f_out>>
uploadVars == <<u_pc, u_file, u_out>>
chartVars == <<c_pc, c_args, c_out>>
roundTripVars == <<r_pc, r_df, r_out>>
runVars == <<fetchVars, uploadVars, chartVars, roundTripVars>>
exportVars == <<exports_dir, last_export, exports_made>>
vars == <<uiVars, dirVars, runVars, exportVars>>

-----------------------------------------------------------------------------
(* Bounds of the model *)

\* longest list of country codes handed to one run of fetch_country_data
MaxCodes == 2
\* longest list of indicator labels handed to one run of fetch_country_data
MaxLabels == 2
\* most rows of an uploaded file
MaxRows == 2
\* seconds the clock runs while exports are made
MaxSeconds == 1
\* export clicks in one behaviour
MaxExports == 2
\* most rows of a dataset handed to one call of create_chart
MaxChartRows == 3
\* most records of a dataset that is exported and imported again
MaxRecords == 3

-----------------------------------------------------------------------------
(* Indicator catalog (src/config.py) *)

GDP == "GDP (Current US$)"
GROWTH == "GDP Growth (Annual %)"
INCOME == "Income Share - Bottom 10%"
\* a label that is no key of the catalog
UNLISTED == "Not In Catalog"

ALL_INDICATORS ==
    (GDP :> "NY.GDP.MKTP.CD") @@ (GROWTH :> "NY.GDP.MKTP.KD.ZG")
        @@ (INCOME :> "SI.DST.FRST.10")

\* The text of a label as tokens: " - " is the separator the title parser splits on.
Tokens(label) ==
    IF label = INCOME THEN <<"Income Share", " - ", "Bottom 10%">> ELSE <<label>>

\* Ascending string order of the texts the model sorts (str.__lt__).
StrRank(s) ==
    CASE s = "China" -> 1
      [] s = "United States" -> 2
      [] s = GDP -> 3
      [] s = GROWTH -> 4
      [] s = INCOME -> 5
      [] OTHER -> 6

-----------------------------------------------------------------------------
(* The external time-series source, as fetch_country_data sees it *)

CountryCodes == {"USA", "CHN"}
CountryName(code) == IF code = "USA" THEN "United States" ELSE "China"

\* One observation of a response: entry['date'], entry['value'] (null or a
\* number), entry['country']['value']; bad: reading it raises (a missing key,
\* a date that is no integer).
Observation(code, date, value, null, bad) ==
    [date |-> date, value |-> value, null |-> null, bad |-> bad,
     country |-> CountryName(code)]

\* What one request can come to.
Outcomes == {"network_error", "http_error", "no_data", "one_point", "null_only",
             "null_then_point", "point_then_malformed"}

\* requests.get + raise_for_status + response.json for one pair.
SourceResponse(code, kind) ==
    CASE kind = "network_error" -> [raises |-> TRUE, entries |-> <<>>]
      [] kind = "http_error" -> [raises |-> TRUE, entries |-> <<>>]
      [] kind = "no_data" -> [raises |-> FALSE, entries |-> <<>>]
      [] kind = "one_point" ->
            [raises |-> FALSE,
             entries |-> <<Observation(code, 2020, 1, FALSE, FALSE)>>]
      [] kind = "null_only" ->
            [raises |-> FALSE,
             entries |-> <<Observation(code, 2021, 0, TRUE, FALSE)>>]
      [] kind = "null_then_point" ->
            [raises |-> FALSE,
             entries |-> <<Observation(code, 2021, 0, TRUE, FALSE),
                           Observation(code, 2020, 1, FALSE, FALSE)>>]
      [] OTHER ->
            [raises |-> FALSE,
             entries |-> <<Observation(code, 2021, 2, FALSE, FALSE),
                           Observation(code, 2020, 0, FALSE, TRUE)>>]

-----------------------------------------------------------------------------
(* fetch_country_data (src/main.py:79-127) *)

Record(country_code, country_name, indicator, year, value) ==
    [country_code |-> country_code, country_name |-> country_name,
     indicator |-> indicator, year |-> year, value |-> value]

RequestEvent(country_code, indicator_name, start_year, end_year) ==
    [ev |-> "request", country |-> country_code, indicator |-> indicator_name,
     code |-> ALL_INDICATORS[indicator_name], date |-> <<start_year, end_year>>]

SleepEvent ==
    [ev |-> "sleep", country |-> "", indicator |-> "", code |-> "",
     date |-> <<0, 0>>]

\* for entry in data[1]: append a record per non-null value; an observation
\* that cannot be read raises out of the loop, after the appends made so far.
\* The test of the value gone wrong: a null value is stored too, as zero.
ValueIsNotNoneLax(entry) == TRUE

\* Line 109: entry['value'] is not None
ValueIsNotNone(entry) == ~entry.null

RECURSIVE ProcessEntries(_, _, _, _, _)
ProcessEntries(entries, k, country_code, indicator_name, all_data) ==
    IF k > Len(entries) THEN [all_data |-> all_data, raises |-> FALSE]
    ELSE IF ~ValueIsNotNone(entries[k])
        THEN ProcessEntries(entries, k + 1, country_code, indicator_name, all_data)
    ELSE IF entries[k].bad THEN [all_data |-> all_data, raises |-> TRUE]
    ELSE ProcessEntries(entries, k + 1, country_code, indicator_name,
            Append(all_data,
                   Record(country_code, entries[k].country, indicator_name,
                          entries[k].date, entries[k].value)))

\* The handler gone wrong: the error leaves the function.
ExceptAbort(run) == [run EXCEPT !.raised = TRUE]

\* The handler gone wrong: the failed request is issued once more.
ExceptRetry(run) == [run EXCEPT !.raised = FALSE, !.log = Append(@, @[Len(@)])]

\* The except block: log and continue with the next pair.
ExceptContinue(run) == [run EXCEPT !.raised = FALSE]

\* The body of the try for one pair, and the except block around it.
TryPair(country_code, indicator_name, start_year, end_year, src, run) ==
    LET requested == [run EXCEPT !.log = Append(@,
                        RequestEvent(country_code, indicator_name, start_year, end_year))]
        response == SourceResponse(country_code, src[<<country_code, indicator_name>>])
        processed == ProcessEntries(response.entries, 1, country_code,
                                    indicator_name, requested.all_data)
    IN  IF response.raises THEN ExceptContinue(requested)
        ELSE IF processed.raises
            THEN ExceptContinue([requested EXCEPT !.all_data = processed.all_data])
        ELSE [requested EXCEPT !.all_data = processed.all_data,
                               !.log = Append(@, SleepEvent)]

\* for country_code in country_codes: for indicator_name in indicators
RECURSIVE FetchLoop(_, _, _, _, _, _, _, _)
FetchLoop(country_codes, indicators, ci, ii, start_year, end_year, src, run) ==
    IF run.raised \/ ci > Len(country_codes) THEN run
    ELSE IF ii > Len(indicators)
        THEN FetchLoop(country_codes, indicators, ci + 1, 1, start_year, end_year, src, run)
    ELSE IF indicators[ii] \notin DOMAIN ALL_INDICATORS
        THEN FetchLoop(country_codes, indicators, ci, ii + 1, start_year, end_year, src, run)
    ELSE FetchLoop(country_codes, indicators, ci, ii + 1, start_year, end_year, src,
            TryPair(country_codes[ci], indicators[ii], start_year, end_year, src, run))

\* The order of sort_values(['country_name', 'indicator', 'year']).
RecordBefore(a, b) ==
    \/ StrRank(a.country_name) < StrRank(b.country_name)
    \/ /\ a.country_name = b.country_name
       /\ \/ StrRank(a.indicator) < StrRank(b.indicator)
          \/ a.indicator = b.indicator /\ a.year < b.year

\* Stable insertion of r into the sorted sequence s.
RECURSIVE InsertSorted(_, _)
InsertSorted(s, r) ==
    IF s = <<>> THEN <<r>>
    ELSE IF RecordBefore(r, s[Len(s)]) THEN Append(InsertSorted(SubSeq(s, 1, Len(s) - 1), r), s[Len(s)])
    ELSE Append(s, r)

RECURSIVE SortValues(_)
SortValues(s) ==
    IF s = <<>> THEN <<>>
    ELSE InsertSorted(SortValues(SubSeq(s, 1, Len(s) - 1)), s[Len(s)])

fetch_country_data(country_codes, start_year, end_year, indicators, src) ==
    LET run == FetchLoop(country_codes, indicators, 1, 1, start_year, end_year, src,
                         [all_data |-> <<>>, log |-> <<>>, raised |-> FALSE])
    IN  [raised |-> run.raised, log |-> run.log, all_data |-> run.all_data,
         df |-> IF run.raised THEN <<>> ELSE SortValues(run.all_data)]

-----------------------------------------------------------------------------
(* Chart types and rendered titles (src/main.py:32-40, 154-195) *)

CHART_TYPES == <<"line", "bar", "scatter", "area", "box", "heatmap", "histogram">>

\* The emoji (with its trailing blank) that opens the title of each chart type.
LINE_MARK == "[chart-up] "
BAR_MARK == "[bar-chart] "
SCATTER_MARK == "[target] "
AREA_MARK == "[clipboard] "
BOX_MARK == "[dividers] "
HEATMAP_MARK == "[thermometer] "
HISTOGRAM_MARK == "[chart-down] "
SEPARATOR == " - "

Range(s) == {s[k] : k \in DOMAIN s}

RECURSIVE MaxOf(_)
MaxOf(S) ==
    IF S = {} THEN 0
    ELSE LET x == CHOOSE y \in S : TRUE
             m == MaxOf(S \ {x})
         IN  IF S = {x} \/ x > m THEN x ELSE m

RECURSIVE SumOf(_)
SumOf(s) == IF s = <<>> THEN 0 ELSE s[1] + SumOf(Tail(s))

\* A figure: the branch of create_chart that built it, layout.title.text (empty
\* when the layout has no title), the annotation of a placeholder, the rows
\* that are plotted, and the grid of a heatmap.
Figure(kind, title, message, rows, grid) ==
    [kind |-> kind, title |-> title, message |-> message, rows |-> rows, grid |-> grid]

Placeholder(message) == Figure("placeholder", <<>>, message, <<>>, {})

SelectIndicator(df, indicator) == SelectSeq(df, LAMBDA r : r.indicator = indicator)

\* The filter gone wrong: a filter that matches no row shows all countries.
SelectCountriesOrAll(rows, countries) ==
    IF \A k \in DOMAIN rows : rows[k].country_code \notin Range(countries) THEN rows
    ELSE SelectSeq(rows, LAMBDA r : r.country_code \in Range(countries))

\* Line 146: the rows whose country code is in the filter.
SelectCountries(rows, countries) ==
    SelectSeq(rows, LAMBDA r : r.country_code \in Range(countries))

\* pivot_table(values='value', index='country_name', columns='year',
\* aggfunc='mean').fillna(0): one cell per country and year of the rows, holding
\* the mean sum/n of the matching values, or 0 (0/1) where there is none.
HeatmapGrid(rows) ==
    { LET vals == SelectSeq(rows, LAMBDA r : r.country_name = c /\ r.year = y)
      IN  [country_name |-> c, year |-> y,
           sum |-> SumOf([k \in DOMAIN vals |-> vals[k].value]),
           n |-> IF vals = <<>> THEN 1 ELSE Len(vals),
           filled |-> vals = <<>>]
      : c \in {r.country_name : r \in Range(rows)}, y \in {r.year : r \in Range(rows)} }

\* The chart-type branches of create_chart (lines 154-195) on the filtered rows.
RenderChart(indicator_data, indicator, chart_type) ==
    LET name == Tokens(indicator)
        latest_year == MaxOf({r.year : r \in Range(indicator_data)})
    IN  CASE chart_type = "line" ->
                Figure("line", <<LINE_MARK>> \o name \o <<SEPARATOR, "Trend Analysis">>,
                       <<>>, indicator_data, {})
          [] chart_type = "bar" ->
                Figure("bar",
                       <<BAR_MARK>> \o name
                           \o <<" (", ToString(latest_year), ")", SEPARATOR, "Comparison">>,
                       <<>>, SelectSeq(indicator_data, LAMBDA r : r.year = latest_year), {})
          [] chart_type = "scatter" ->
                Figure("scatter", <<SCATTER_MARK>> \o name \o <<SEPARATOR, "Scatter Analysis">>,
                       <<>>, indicator_data, {})
          [] chart_type = "area" ->
                Figure("area", <<AREA_MARK>> \o name \o <<SEPARATOR, "Area Chart">>,
                       <<>>, indicator_data, {})
          [] chart_type = "box" ->
                Figure("box", <<BOX_MARK>> \o name \o <<SEPARATOR, "Distribution Analysis">>,
                       <<>>, indicator_data, {})
          [] chart_type = "heatmap" ->
                Figure("heatmap", <<HEATMAP_MARK>> \o name \o <<SEPARATOR, "Heatmap">>,
                       <<>>, <<>>, HeatmapGrid(indicator_data))
          [] chart_type = "histogram" ->
                Figure("histogram",
                       <<HISTOGRAM_MARK>> \o name \o <<SEPARATOR, "Value Distribution">>,
                       <<>>, indicator_data, {})
          [] OTHER ->
                Figure("default", <<LINE_MARK>> \o name \o <<SEPARATOR, "Default View">>,
                       <<>>, indicator_data, {})

\* create_chart(df, indicator, chart_type, countries); countries <<>> stands for
\* None and for []: line 145 treats both as "no filter".
create_chart(df, indicator, chart_type, countries) ==
    LET indicator_data == SelectIndicator(df, indicator)
        filtered == IF countries # <<>> THEN SelectCountries(indicator_data, countries)
                    ELSE indicator_data
    IN  IF df = <<>> THEN Placeholder(<<"No data available">>)
        ELSE IF indicator_data = <<>>
            THEN Placeholder(<<"No data available for ", indicator>>)
        ELSE IF filtered = <<>>
            THEN Placeholder(<<"No data available for ", indicator, " with selected countries">>)
        ELSE RenderChart(filtered, indicator, chart_type)

-----------------------------------------------------------------------------
(* Parsing a title back into an indicator name (src/main.py:654) *)

\* text.split(sep)[0]: the tokens before the first sep.
RECURSIVE BeforeFirst(_, _)
BeforeFirst(text, sep) ==
    IF text = <<>> \/ text[1] = sep THEN <<>>
    ELSE <<text[1]>> \o BeforeFirst(Tail(text), sep)

\* text.split(sep)[-1]: the tokens after the last sep.
RECURSIVE AfterLast(_, _)
AfterLast(text, sep) ==
    IF text = <<>> THEN <<>>
    ELSE IF text[Len(text)] = sep THEN <<>>
    ELSE Append(AfterLast(SubSeq(text, 1, Len(text) - 1), sep), text[Len(text)])

TitleIndicator(title) ==
    AfterLast(AfterLast(AfterLast(AfterLast(AfterLast(AfterLast(AfterLast(
        BeforeFirst(title, SEPARATOR),
        LINE_MARK), BAR_MARK), SCATTER_MARK), AREA_MARK), BOX_MARK), HEATMAP_MARK),
        HISTOGRAM_MARK)

-----------------------------------------------------------------------------
(* fetch_all_countries and its cache (src/main.py:42-77) *)

\* seconds in a day: timedelta.seconds is the remainder of the difference modulo a day
SECONDS_PER_DAY == 86400
\* the limit the age of the cache is compared with (line 52)
CACHE_SECONDS == 86400

Country(name, id, capitalCity, longitude, latitude) ==
    [name |-> name, id |-> id, capitalCity |-> capitalCity,
     longitude |-> longitude, latitude |-> latitude]

\* What the directory endpoint can answer: an error, a payload without a
\* country list, or a list (here: two countries, the aggregate "World", which
\* has no capital city and no coordinates, and three entries that lack one of
\* the three fields each, in the order the endpoint sends them).
DirectoryOutcomes == {"error", "no_list", "list"}

DirectoryList ==
    <<Country("United States", "USA", TRUE, TRUE, TRUE),
      Country("World", "WLD", FALSE, FALSE, FALSE),
      Country("No Capital", "XNC", FALSE, TRUE, TRUE),
      Country("China", "CHN", TRUE, TRUE, TRUE),
      Country("No Longitude", "XNO", TRUE, FALSE, TRUE),
      Country("No Latitude", "XNA", TRUE, TRUE, FALSE)>>

\* data[1] of the payload: the country list, or nothing.
ResponseList(outcome) == IF outcome = "list" THEN DirectoryList ELSE <<>>

NoCache == [present |-> FALSE, items |-> <<>>]

\* dict(sorted(countries.items())) as the sequence of its (name, id) items.
RECURSIVE SortedItems(_)
SortedItems(S) ==
    IF S = {} THEN <<>>
    ELSE LET first == CHOOSE x \in S : \A y \in S : StrRank(x.name) <= StrRank(y.name)
         IN  <<first>> \o SortedItems(S \ {first})

\* The hardcoded list of major economies (lines 73-77).
FallbackCountries ==
    <<[name |-> "United States", id |-> "USA"], [name |-> "China", id |-> "CHN"],
      [name |-> "Japan", id |-> "JPN"], [name |-> "Germany", id |-> "DEU"],
      [name |-> "India", id |-> "IND"], [name |-> "United Kingdom", id |-> "GBR"],
      [name |-> "France", id |-> "FRA"], [name |-> "Italy", id |-> "ITA"],
      [name |-> "Brazil", id |-> "BRA"], [name |-> "Canada", id |-> "CAN"],
      [name |-> "Russia", id |-> "RUS"], [name |-> "South Korea", id |-> "KOR"]>>

\* (datetime.now() - _cache_timestamp).seconds
TimedeltaSeconds(later, earlier) == (later - earlier) % SECONDS_PER_DAY

\* The test of lines 51-52: serve the call from the cache.
CacheIsFresh ==
    /\ countries_cache.present
    /\ cache_timestamp >= 0
    /\ TimedeltaSeconds(now, cache_timestamp) < CACHE_SECONDS

\* The test of the entries gone wrong: a capital city is enough.
QualifyingCountriesByCapital(list) ==
    SortedItems({[name |-> c.name, id |-> c.id] : c \in {d \in Range(list) : d.capitalCity}})

\* Lines 61-67: the entries with capital city, longitude and latitude, by name.
QualifyingCountries(list) ==
    SortedItems({[name |-> c.name, id |-> c.id] :
        c \in {d \in Range(list) : d.capitalCity /\ d.longitude /\ d.latitude}})

\* What a call of fetch_all_countries did: whether a cache existed and how many
\* seconds had passed since it was written, whether a request was sent, where
\* the returned mapping came from, the country list the source sent (when it
\* sent one), and the mapping (its items in order).
Call(cached, elapsed, requested, from, response, result) ==
    [cached |-> cached, elapsed |-> elapsed, requested |-> requested,
     from |-> from, response |-> response, result |-> result]

\* The except block gone wrong: the hardcoded list is stored in the cache.
fetch_all_countries_caches_fallback(outcome) ==
    LET cached == countries_cache.present /\ cache_timestamp >= 0
        elapsed == IF cached THEN now - cache_timestamp ELSE 0
    IN  IF CacheIsFresh THEN
            /\ dir_call' = Call(cached, elapsed, FALSE, "cache", <<>>, countries_cache.items)
            /\ UNCHANGED <<countries_cache, cache_timestamp>>
        ELSE IF outcome = "error" THEN
            /\ dir_call' = Call(cached, elapsed, TRUE, "fallback", <<>>, FallbackCountries)
            /\ countries_cache' = [present |-> TRUE, items |-> FallbackCountries]
            /\ cache_timestamp' = now
        ELSE
            LET countries == QualifyingCountries(ResponseList(outcome))
            IN  /\ countries_cache' = [present |-> TRUE, items |-> countries]
                /\ cache_timestamp' = now
                /\ dir_call' = Call(cached, elapsed, TRUE, "source",
                                    ResponseList(outcome), countries)

fetch_all_countries(outcome) ==
    LET cached == countries_cache.present /\ cache_timestamp >= 0
        elapsed == IF cached THEN now - cache_timestamp ELSE 0
    IN  IF CacheIsFresh THEN
            /\ dir_call' = Call(cached, elapsed, FALSE, "cache", <<>>, countries_cache.items)
            /\ UNCHANGED <<countries_cache, cache_timestamp>>
        ELSE IF outcome = "error" THEN
            /\ dir_call' = Call(cached, elapsed, TRUE, "fallback", <<>>, FallbackCountries)
            /\ UNCHANGED <<countries_cache, cache_timestamp>>
        ELSE
            LET countries == QualifyingCountries(ResponseList(outcome))
            IN  /\ countries_cache' = [present |-> TRUE, items |-> countries]
                /\ cache_timestamp' = now
                /\ dir_call' = Call(cached, elapsed, TRUE, "source",
                                    ResponseList(outcome), countries)

-----------------------------------------------------------------------------
(* Values of the session stores *)

\* {} / None / []: a store that holds nothing (all are falsy where the code tests them)
EmptyStore == <<>>
\* {} as a view state: no source, .get('indicators', []) and .get('countries') empty
EmptyUiState == [source |-> "", indicators |-> <<>>, countries |-> <<>>]

\* The value of a chart-type dropdown the user has cleared
NONE_TYPE == "None"

\* One child of charts-container: a chart card (its pattern-matching index, the
\* indicator of its header, the value of its chart-type dropdown, the figure
\* of its graph) or the "No data found" alert.
ChartCard(index, indicator, chart_type, figure) ==
    [type |-> "chart", index |-> index, indicator |-> indicator,
     chart_type |-> chart_type, figure |-> figure]

NoDataAlert ==
    [type |-> "alert", index |-> 0, indicator |-> "", chart_type |-> "",
     figure |-> Placeholder(<<>>)]

\* The components {"type": "chart", "index": ALL}, in layout order.
Charts(children) == SelectSeq(children, LAMBDA c : c.type = "chart")

\* df['indicator'].values contains the indicator
HasRows(df, indicator) == \E k \in DOMAIN df : df[k].indicator = indicator

\* unique() gone wrong: the repeats are kept.
UniqueKeepsRepeats(s) == s

\* Series.unique(): the distinct values in order of first appearance
RECURSIVE Unique(_)
Unique(s) ==
    IF s = <<>> THEN <<>>
    ELSE LET rest == Unique(SubSeq(s, 1, Len(s) - 1))
         IN  IF s[Len(s)] \in Range(rest) THEN rest ELSE Append(rest, s[Len(s)])

-----------------------------------------------------------------------------
(* create_charts_and_export (src/main.py:575-637) *)

\* Line 583: the indicators that get a card.
GetsCard(df, indicator) == HasRows(df, indicator)

\* The chart-type value and the figure of a new card (lines 595, 605).
NewCard(df, index, indicator, countries) ==
    ChartCard(index, indicator, "line", create_chart(df, indicator, "line", countries))

RECURSIVE CardsFrom(_, _, _, _)
CardsFrom(df, indicators, countries, i) ==
    IF i > Len(indicators) THEN <<>>
    ELSE IF ~GetsCard(df, indicators[i]) THEN CardsFrom(df, indicators, countries, i + 1)
    ELSE <<NewCard(df, i - 1, indicators[i], countries)>>
            \o CardsFrom(df, indicators, countries, i + 1)

create_charts_and_export(df, indicators, countries) ==
    CardsFrom(df, indicators, countries, 1)

-----------------------------------------------------------------------------
(* fetch_and_display_data (src/main.py:529-572) *)

Outputs(children, data, ui_state) ==
    [charts_container |-> children, data_store |-> data, ui_state_store |-> ui_state]

\* The view state gone wrong: narrowed to the indicators that returned rows.
MakeUiStateNarrowed(data_source, indicators_in_data, selected_countries, df) ==
    [source |-> data_source,
     indicators |-> SelectSeq(indicators_in_data, LAMBDA ind : HasRows(df, ind)),
     countries |-> selected_countries]

\* Lines 566-570.
MakeUiState(data_source, indicators_in_data, selected_countries, df) ==
    [source |-> data_source,
     indicators |-> indicators_in_data,
     countries |-> IF data_source = "api" THEN selected_countries
                   ELSE Unique([k \in DOMAIN df |-> df[k].country_code])]

\* Lines 555-572: from the dataframe to the outputs.
Display(df, indicators_in_data, data_source, selected_countries) ==
    IF df = <<>> THEN Outputs(<<NoDataAlert>>, EmptyStore, EmptyUiState)
    ELSE Outputs(create_charts_and_export(df, indicators_in_data,
                    IF data_source = "api" THEN selected_countries ELSE <<>>),
                 df,
                 MakeUiState(data_source, indicators_in_data, selected_countries, df))

\* The callback gone wrong: a trigger it rejects leaves the stores and the
\* charts as they were.
fetch_and_display_data_keeps_on_reject(trigger_id, selected_countries, selected_indicators, year_range, imported_data, existing_data, existing_ui_state, src) ==
    IF trigger_id = "" THEN
        IF existing_data # EmptyStore /\ existing_ui_state # EmptyUiState
        THEN Outputs(create_charts_and_export(existing_data, existing_ui_state.indicators,
                                              existing_ui_state.countries),
                     existing_data, existing_ui_state)
        ELSE Outputs(<<>>, EmptyStore, EmptyUiState)
    ELSE IF trigger_id = "use-imported-btn" /\ imported_data # EmptyStore THEN
        Display(imported_data,
                Unique([k \in DOMAIN imported_data |-> imported_data[k].indicator]),
                "imported", selected_countries)
    ELSE IF /\ trigger_id = "fetch-data-btn"
            /\ selected_countries # <<>>
            /\ selected_indicators # <<>> THEN
        Display(fetch_country_data(selected_countries, year_range[1], year_range[2],
                                   selected_indicators, src).df,
                selected_indicators, "api", selected_countries)
    ELSE IF existing_data # EmptyStore /\ existing_ui_state # EmptyUiState
        THEN Outputs(create_charts_and_export(existing_data, existing_ui_state.indicators,
                                              existing_ui_state.countries),
                     existing_data, existing_ui_state)
    ELSE Outputs(<<>>, EmptyStore, EmptyUiState)

fetch_and_display_data(trigger_id, selected_countries, selected_indicators, year_range, imported_data, existing_data, existing_ui_state, src) ==
    IF trigger_id = "" THEN
        IF existing_data # EmptyStore /\ existing_ui_state # EmptyUiState
        THEN Outputs(create_charts_and_export(existing_data, existing_ui_state.indicators,
                                              existing_ui_state.countries),
                     existing_data, existing_ui_state)
        ELSE Outputs(<<>>, EmptyStore, EmptyUiState)
    ELSE IF trigger_id = "use-imported-btn" /\ imported_data # EmptyStore THEN
        Display(imported_data,
                Unique([k \in DOMAIN imported_data |-> imported_data[k].indicator]),
                "imported", selected_countries)
    ELSE IF /\ trigger_id = "fetch-data-btn"
            /\ selected_countries # <<>>
            /\ selected_indicators # <<>> THEN
        Display(fetch_country_data(selected_countries, year_range[1], year_range[2],
                                   selected_indicators, src).df,
                selected_indicators, "api", selected_countries)
    ELSE Outputs(<<>>, EmptyStore, EmptyUiState)

-----------------------------------------------------------------------------
(* update_chart_types (src/main.py:689-708) *)

\* The reconciliation gone wrong: every chart falls back to the default.
AppliedTypesAllDefault(chart_types, active_indicators) ==
    [k \in DOMAIN active_indicators |-> "line"]

\* Lines 701-702: the chart types applied to the active indicators.
AppliedTypes(chart_types, active_indicators) ==
    IF Len(chart_types) # Len(active_indicators)
    THEN [k \in DOMAIN active_indicators |-> "line"]
    ELSE chart_types

update_chart_types(chart_types, stored_data, ui_state) ==
    IF stored_data = EmptyStore \/ ui_state = EmptyUiState THEN <<>>
    ELSE LET active_indicators ==
                 SelectSeq(ui_state.indicators, LAMBDA ind : HasRows(stored_data, ind))
             applied == AppliedTypes(chart_types, active_indicators)
         IN  [k \in DOMAIN active_indicators |->
                 create_chart(stored_data, active_indicators[k], applied[k],
                              ui_state.countries)]

-----------------------------------------------------------------------------
(* store_chart_images (src/main.py:645-681) *)

UNKNOWN_INDICATOR == "Unknown Indicator"

\* fig_to_base64: the PNG of the figure, or None (<<>>) when rasterizing raises.
ImageOf(figure, rasterizes) ==
    IF rasterizes THEN <<"png">> \o figure.title \o figure.message ELSE <<>>

\* Line 654: the indicators of the view state whose name is the parsed title of
\* some figure.
ActiveByTitle(figures, indicators) ==
    LET parsed == {TitleIndicator(figures[k].title) :
                        k \in {j \in DOMAIN figures : figures[j].title # <<>>}}
    IN  SelectSeq(indicators, LAMBDA ind : Tokens(ind) \in parsed)

store_chart_images(figures, chart_types, ui_state, rasterizes) ==
    IF figures = <<>> \/ ui_state = EmptyUiState THEN <<>>
    ELSE LET num_figures == Len(figures)
             found == ActiveByTitle(figures, ui_state.indicators)
             active_indicators ==
                 IF Len(found) > num_figures THEN SubSeq(found, 1, num_figures) ELSE found
         IN  [i \in 1..num_figures |->
                 [indicator |-> IF i <= Len(active_indicators) THEN active_indicators[i]
                                ELSE UNKNOWN_INDICATOR,
                  chart_type |-> IF i <= Len(chart_types) THEN chart_types[i] ELSE "line",
                  image_b64 |-> ImageOf(figures[i], rasterizes[i])]]

-----------------------------------------------------------------------------
(* parse_uploaded_csv and handle_file_upload (src/main.py:294-316, 503-512) *)

\* The notices of upload-status: none, the success alert, the danger alerts.
NO_NOTICE == ""
UPLOADED == "uploaded"
MISSING_COLUMNS == "missing_columns"
NOT_CSV == "not_csv"

REQUIRED_COLS == <<"country_code", "country_name", "indicator", "year", "value">>

\* A cell of the columns year and value as read_csv delivers it: a number, or
\* text that pd.to_numeric(errors='coerce') turns into NaN.
Num(v) == [num |-> TRUE, v |-> v]
Text == [num |-> FALSE, v |-> 0]

\* A row of the file; an empty text cell ("") is read as NaN.
Row(country_code, country_name, indicator, year, value) ==
    [country_code |-> country_code, country_name |-> country_name,
     indicator |-> indicator, year |-> year, value |-> value]

\* An uploaded file: whether its name contains 'csv', its header, its rows.
File(is_csv, columns, rows) == [is_csv |-> is_csv, columns |-> columns, rows |-> rows]

\* The filter gone wrong: no row is dropped.
SurvivesAlways(row) == TRUE

\* Lines 307-309: to_numeric on year and value, then dropna over the five columns.
Survives(row) ==
    /\ row.year.num
    /\ row.value.num
    /\ row.country_code # ""
    /\ row.country_name # ""
    /\ row.indicator # ""

\* The check of the header gone wrong: every header passes.
HasRequiredColsLax(file) == TRUE

\* Line 303: all(col in df.columns for col in required_cols)
HasRequiredCols(file) == \A k \in DOMAIN REQUIRED_COLS : REQUIRED_COLS[k] \in Range(file.columns)

parse_uploaded_csv(file) ==
    IF ~file.is_csv THEN [df_is_none |-> TRUE, df |-> <<>>, message |-> NOT_CSV]
    ELSE IF ~HasRequiredCols(file)
        THEN [df_is_none |-> TRUE, df |-> <<>>, message |-> MISSING_COLUMNS]
    ELSE LET kept == SelectSeq(file.rows, Survives)
         IN  [df_is_none |-> FALSE,
              df |-> [k \in DOMAIN kept |->
                        Record(kept[k].country_code, kept[k].country_name,
                               kept[k].indicator, kept[k].year.v, kept[k].value.v)],
              message |-> UPLOADED]

\* handle_file_upload: the outputs imported-data-store, upload-status and
\* use-imported-btn.disabled.
handle_file_upload(has_contents, file) ==
    IF ~has_contents
    THEN [imported_data_store |-> EmptyStore, upload_status |-> NO_NOTICE, disabled |-> TRUE]
    ELSE LET parsed == parse_uploaded_csv(file)
         IN  IF ~parsed.df_is_none
             THEN [imported_data_store |-> parsed.df, upload_status |-> parsed.message,
                   disabled |-> FALSE]
             ELSE [imported_data_store |-> EmptyStore, upload_status |-> parsed.message,
                   disabled |-> TRUE]

\* The outputs while no file was uploaded.
NoUpload == [imported_data_store |-> EmptyStore, upload_status |-> NO_NOTICE, disabled |-> TRUE]

\* The files a user uploads in the model.
UploadedFiles ==
    { File(TRUE, REQUIRED_COLS,
           <<Row("USA", "United States", GDP, Num(2020), Num(1)),
             Row("CHN", "China", INCOME, Num(2021), Num(2)),
             Row("CHN", "China", GDP, Num(2020), Num(3))>>),
      File(TRUE, REQUIRED_COLS,
           <<Row("USA", "United States", GDP, Text, Num(1))>>),
      File(TRUE, <<"country_code", "country_name", "indicator", "value">>,
           <<Row("USA", "United States", GDP, Text, Num(1))>>),
      File(FALSE, REQUIRED_COLS,
           <<Row("USA", "United States", GDP, Num(2020), Num(1))>>) }

-----------------------------------------------------------------------------
(* clear_all_data (src/main.py:767-786) *)

\* The reset gone wrong: the import buffer is left as it is.
clear_all_data_keeps_import ==
    [data_store |-> EmptyStore,
     imported_data_store |-> imported_data_store,
     ui_state_store |-> EmptyUiState,
     chart_images_store |-> <<>>,
     charts_container |-> <<>>,
     upload_status |-> "",
     use_imported_disabled |-> TRUE]

\* The reset gone wrong: the dataset is left as it is.
clear_all_data_keeps_dataset ==
    [data_store |-> data_store,
     imported_data_store |-> EmptyStore,
     ui_state_store |-> ui_state_store,
     chart_images_store |-> <<>>,
     charts_container |-> <<>>,
     upload_status |-> "",
     use_imported_disabled |-> TRUE]

\* The reset gone wrong: while a dataset is loaded it clears the dataset and
\* keeps the import buffer, which only a further reset clears.
clear_all_data_in_two_steps ==
    [data_store |-> EmptyStore,
     imported_data_store |-> IF data_store # EmptyStore THEN imported_data_store
                             ELSE EmptyStore,
     ui_state_store |-> EmptyUiState,
     chart_images_store |-> <<>>,
     charts_container |-> <<>>,
     upload_status |-> "",
     use_imported_disabled |-> data_store = EmptyStore]

\* The reset gone wrong: the view state is left as it is.
clear_all_data_keeps_view_state ==
    [data_store |-> EmptyStore,
     imported_data_store |-> EmptyStore,
     ui_state_store |-> ui_state_store,
     chart_images_store |-> <<>>,
     charts_container |-> <<>>,
     upload_status |-> "",
     use_imported_disabled |-> TRUE]

\* The returned tuple, for the outputs the model holds.
clear_all_data ==
    [data_store |-> EmptyStore,
     imported_data_store |-> EmptyStore,
     ui_state_store |-> EmptyUiState,
     chart_images_store |-> <<>>,
     charts_container |-> <<>>,
     upload_status |-> "",
     use_imported_disabled |-> TRUE]

-----------------------------------------------------------------------------
(* export_to_csv, export_to_pdf and handle_exports (src/main.py:212-292, 717-751) *)

\* None as the returned path
NO_PATH == <<>>

MS_PER_SECOND == 1000

\* datetime.now().strftime('%Y%m%d_%H%M%S') of an instant given in
\* milliseconds: the second the instant lies in.
Strftime(instant_ms) == instant_ms \div MS_PER_SECOND

\* str.encode('latin-1', 'replace').decode('latin-1'): an emoji becomes "?".
Latin1(text) ==
    [k \in DOMAIN text |->
        IF text[k] \in {LINE_MARK, BAR_MARK, SCATTER_MARK, AREA_MARK, BOX_MARK,
                        HEATMAP_MARK, HISTOGRAM_MARK}
        THEN "? " ELSE text[k]]

\* Line 263: the label of CHART_TYPES for the value, or the value itself.
ChartTypeLabel(chart_type) ==
    CASE chart_type = "line" -> <<LINE_MARK, "Line Chart">>
      [] chart_type = "bar" -> <<BAR_MARK, "Bar Chart">>
      [] chart_type = "scatter" -> <<SCATTER_MARK, "Scatter Plot">>
      [] chart_type = "area" -> <<AREA_MARK, "Area Chart">>
      [] chart_type = "box" -> <<BOX_MARK, "Box Plot">>
      [] chart_type = "heatmap" -> <<HEATMAP_MARK, "Heatmap">>
      [] chart_type = "histogram" -> <<HISTOGRAM_MARK, "Histogram">>
      [] OTHER -> <<chart_type>>

\* What an export returns and writes: the path (or None) and, when the file was
\* written, its content.
Exported(path, content) == [path |-> path, written |-> TRUE, content |-> content]
ExportFailed == [path |-> NO_PATH, written |-> FALSE, content |-> <<>>]

\* The characters of a numeral.
DIGITS == <<"0", "1", "2", "3", "4", "5", "6", "7", "8", "9">>
MINUS == "-"
POINT == "."

\* The decimal digits of a natural number, most significant first.
RECURSIVE DigitsOf(_)
DigitsOf(n) ==
    IF n < 10 THEN <<DIGITS[n + 1]>> ELSE Append(DigitsOf(n \div 10), DIGITS[(n % 10) + 1])

\* The numeral gone wrong: the sign is not written.
FormatIntUnsigned(n) == DigitsOf(IF n < 0 THEN -n ELSE n)

\* to_csv of an int64 cell: the sign and the digits.
FormatInt(n) == IF n < 0 THEN <<MINUS>> \o DigitsOf(-n) ELSE DigitsOf(n)

\* to_csv of a float64 cell that holds a whole number: the numeral, ".0".
FormatFloat(v) == FormatInt(v) \o <<POINT, "0">>

\* to_csv of a text cell: the text; nothing for an empty text.
FormatText(text) == IF text = "" THEN <<>> ELSE <<text>>

\* The line to_csv writes for a record, cell by cell (index=False).
CsvLine(record) ==
    [country_code |-> FormatText(record.country_code),
     country_name |-> FormatText(record.country_name),
     indicator |-> FormatText(record.indicator),
     year |-> FormatInt(record.year),
     value |-> FormatFloat(record.value)]

\* A DataFrame built from no records has no columns: line 218 raises KeyError.
HasColumns(df) == df # <<>>

\* The except block gone wrong: the path is returned although nothing was written.
export_to_csv_returns_path_anyway(df, filename, io_ok) ==
    [path |-> <<"exports", "csv">> \o filename, written |-> io_ok,
     content |-> IF io_ok THEN [columns |-> REQUIRED_COLS,
                                rows |-> [k \in DOMAIN df |-> CsvLine(df[k])]]
                 ELSE <<>>]

\* export_to_csv; io_ok: makedirs and to_csv succeed.
export_to_csv(df, filename, io_ok) ==
    IF io_ok /\ HasColumns(df)
    THEN Exported(<<"exports", "csv">> \o filename,
                  [columns |-> REQUIRED_COLS,
                   rows |-> [k \in DOMAIN df |-> CsvLine(df[k])]])
    ELSE ExportFailed

\* The value of a digit character.
DigitValue(char) == (CHOOSE d \in DOMAIN DIGITS : DIGITS[d] = char) - 1

\* The number a sequence of digit characters denotes.
RECURSIVE NaturalOf(_)
NaturalOf(digits) ==
    IF digits = <<>> THEN 0
    ELSE 10 * NaturalOf(SubSeq(digits, 1, Len(digits) - 1))
            + DigitValue(digits[Len(digits)])

\* The cell without a trailing ".0".
WholePart(cell) ==
    IF Len(cell) > 2 /\ cell[Len(cell) - 1] = POINT /\ cell[Len(cell)] = "0"
    THEN SubSeq(cell, 1, Len(cell) - 2) ELSE cell

\* The cell without a leading sign.
Unsigned(cell) == IF cell # <<>> /\ cell[1] = MINUS THEN Tail(cell) ELSE cell

\* The cell is the numeral of a whole number.
IsNumeral(cell) ==
    LET digits == Unsigned(WholePart(cell))
    IN  digits # <<>> /\ \A k \in DOMAIN digits : digits[k] \in Range(DIGITS)

\* read_csv and to_numeric on a cell of the columns year and value: the number
\* of a numeral, NaN for anything else (an empty cell included).
ReadNumber(cell) ==
    IF ~IsNumeral(cell) THEN Text
    ELSE LET whole == WholePart(cell)
         IN  Num(IF whole[1] = MINUS THEN -NaturalOf(Tail(whole)) ELSE NaturalOf(whole))

\* read_csv on a cell of a text column: the text, NaN ("") for an empty cell.
ReadText(cell) == IF cell = <<>> THEN "" ELSE cell[1]

\* The uploaded file that holds what an export wrote: 'csv' in filename holds
\* for a name that ends in ".csv"; read_csv reads the lines into rows.
read_csv(path, content) ==
    File(path[Len(path)] = ".csv", content.columns,
         [k \in DOMAIN content.rows |->
            Row(ReadText(content.rows[k].country_code),
                ReadText(content.rows[k].country_name),
                ReadText(content.rows[k].indicator),
                ReadNumber(content.rows[k].year),
                ReadNumber(content.rows[k].value))])

\* Lines 244-253: the summary block.
Summary(df) ==
    IF df = <<>> THEN <<>>
    ELSE <<[total |-> Len(df),
            countries |-> Cardinality({df[k].country_name : k \in DOMAIN df}),
            indicators |-> Cardinality({df[k].indicator : k \in DOMAIN df}),
            year_min |-> -MaxOf({-df[k].year : k \in DOMAIN df}),
            year_max |-> MaxOf({df[k].year : k \in DOMAIN df})]>>

\* Lines 261-276 raise for this chart: None has no encode (the chart type of
\* a cleared dropdown), or the image cannot be embedded.
SectionRaises(chart_info, embeds) ==
    \/ chart_info.chart_type = NONE_TYPE
    \/ chart_info.image_b64 # <<>> /\ ~embeds

\* Lines 261-276: the section of one chart; no image when there is none.
Section(chart_info) ==
    [indicator |-> Latin1(<<chart_info.indicator>>),
     chart_type |-> Latin1(ChartTypeLabel(chart_info.chart_type)),
     image |-> chart_info.image_b64]

\* export_to_pdf; embeds[i]: pdf.image succeeds on the image of the i-th
\* chart; io_ok: makedirs and pdf.output succeed.  One try block spans the
\* function: whatever raises, the function returns None.
export_to_pdf(df, chart_list, filename, embeds, io_ok) ==
    IF \/ ~io_ok
       \/ \E i \in DOMAIN chart_list : SectionRaises(chart_list[i], embeds[i])
    THEN ExportFailed
    ELSE Exported(<<"exports", "pdf">> \o filename,
                  [summary |-> Summary(df),
                   sections |-> [i \in DOMAIN chart_list |-> Section(chart_list[i])]])

\* The notices of export-status: none (""), or the text of the alert.
NO_EXPORT_NOTICE == <<>>
CSV_EXPORTED == "CSV exported successfully"
CSV_FAILED == "CSV export failed"
PDF_EXPORTED == "PDF exported successfully"
PDF_FAILED == "PDF export failed"

\* os.path.basename of a path of the exports directory
Basename(path) == SubSeq(path, 3, Len(path))

\* The notice of an export: success with the name of the file, or failure.
NoticeOf(result, done, failed) ==
    IF result.path # NO_PATH THEN <<done>> \o Basename(result.path) ELSE <<failed>>

\* What handle_exports did: nothing, or an export with its result.
NoExport == [kind |-> "", io_ok |-> TRUE, result |-> ExportFailed]

\* handle_exports: the notice for export-status and the export made.
handle_exports(trigger_id, stored_data, chart_images_data, timestamp, embeds, io_ok) ==
    IF stored_data = EmptyStore THEN [export_status |-> NO_EXPORT_NOTICE, export |-> NoExport]
    ELSE IF trigger_id = "export-csv-btn" THEN
        LET result == export_to_csv(stored_data,
                                    <<"economic_data_", timestamp, ".csv">>, io_ok)
        IN  [export_status |-> NoticeOf(result, CSV_EXPORTED, CSV_FAILED),
             export |-> [kind |-> "csv", io_ok |-> io_ok, result |-> result]]
    ELSE IF trigger_id = "export-pdf-btn" THEN
        LET result == export_to_pdf(stored_data, chart_images_data,
                                    <<"economic_report_", timestamp, ".pdf">>,
                                    embeds, io_ok)
        IN  [export_status |-> NoticeOf(result, PDF_EXPORTED, PDF_FAILED),
             export |-> [kind |-> "pdf", io_ok |-> io_ok, result |-> result]]
    ELSE [export_status |-> NO_EXPORT_NOTICE, export |-> NoExport]

-----------------------------------------------------------------------------
(* Inputs *)

\* Sequences over S of length 0..n
SeqsUpTo(S, n) == UNION {[1..m -> S] : m \in 0..n}

\* What the user selects in the two dropdowns before a click
CountryChoices == {<<>>, <<"USA">>, <<"USA", "CHN">>}
IndicatorChoices == {<<>>, <<GDP>>, <<INCOME, GDP>>}
\* Values of the year slider
YearRanges == {<<2018, 2023>>}
\* What a request comes to while the dashboard is driven
UiOutcomes == {"network_error", "one_point"}
\* Whether fig_to_base64 delivers an image while the dashboard is driven
Rasterizes == {TRUE}
\* What the user picks in a chart-type dropdown
ChartTypeChoices == Range(CHART_TYPES) \cup {NONE_TYPE}

\* The pairs one run of fetch_country_data requests
RequestedPairs(country_codes, indicators) ==
    {<<c, i>> : c \in Range(country_codes),
                i \in Range(indicators) \cap DOMAIN ALL_INDICATORS}

\* callback_context: the triggering property and the State values read
Ctx(prop_id, countries, indicators) ==
    [prop_id |-> prop_id, countries |-> countries, indicators |-> indicators]

\* No file: contents is None.
NoFile == File(FALSE, <<>>, <<>>)

\* callback_context of handle_file_upload: contents and filename of upload-data
UploadCtx(has_contents, file) ==
    [prop_id |-> "upload-data", countries |-> <<>>, indicators |-> <<>>,
     has_contents |-> has_contents, file |-> IF has_contents THEN file ELSE NoFile]

\* callback_context of clear_all_data; again: the click follows another click
\* on "Clear All Data" with no other event between them.
ClearCtx(again) ==
    [prop_id |-> "clear-all-btn", countries |-> <<>>, indicators |-> <<>>,
     again |-> again]

-----------------------------------------------------------------------------
(* The callbacks as actions.  An action is one user event with the callbacks *)
(* it sets off: the callback of the event and, when that one writes the      *)
(* chart components, store_chart_images, whose inputs they are.              *)

\* Whether fig_to_base64 succeeds, for each chart of children.
RasterChoices(children, outcomes) == [DOMAIN Charts(children) -> outcomes]

\* store_chart_images on the chart components of children.
ChainedImages(children, ui_state, rasterizes) ==
    LET cards == Charts(children)
    IN  store_chart_images([k \in DOMAIN cards |-> cards[k].figure],
                           [k \in DOMAIN cards |-> cards[k].chart_type],
                           ui_state, rasterizes)

\* The outputs of fetch_and_display_data reach the page.
ApplyDisplay(out, ctx, rasterizes) ==
    /\ charts_container' = out.charts_container
    /\ data_store' = out.data_store
    /\ ui_state_store' = out.ui_state_store
    /\ chart_images_store' =
            ChainedImages(out.charts_container, out.ui_state_store, rasterizes)
    /\ export_status' = NO_EXPORT_NOTICE
    /\ triggered' = ctx
    /\ discarded' = IF out.data_store = EmptyStore THEN data_store ELSE EmptyStore

\* "Analyze Data" clicked with the dropdown and slider values sc, si, yr while
\* the source answers src.
FetchClickOver(outcomes) ==
    /\ \E sc \in CountryChoices, si \in IndicatorChoices, yr \in YearRanges :
         \E src \in [RequestedPairs(sc, si) -> UiOutcomes] :
           \E out \in {fetch_and_display_data("fetch-data-btn", sc, si, yr,
                            imported_data_store, data_store, ui_state_store, src)} :
             \E rasterizes \in RasterChoices(out.charts_container, outcomes) :
                ApplyDisplay(out, Ctx("fetch-data-btn", sc, si), rasterizes)
    /\ UNCHANGED <<imported_data_store, use_imported_disabled, upload_status>>
    /\ UNCHANGED <<dirVars, runVars, exportVars>>

FetchClick == FetchClickOver(Rasterizes)

\* "Use Imported Data" clicked.
UseImportedClickOver(outcomes) ==
    /\ ~use_imported_disabled
    /\ \E out \in {fetch_and_display_data("use-imported-btn", <<>>, <<>>, <<2018, 2023>>,
                        imported_data_store, data_store, ui_state_store, <<>>)} :
         \E rasterizes \in RasterChoices(out.charts_container, outcomes) :
            ApplyDisplay(out, Ctx("use-imported-btn", <<>>, <<>>), rasterizes)
    /\ UNCHANGED <<imported_data_store, use_imported_disabled, upload_status>>
    /\ UNCHANGED <<dirVars, runVars, exportVars>>

UseImportedClick == UseImportedClickOver(Rasterizes)

\* The page is loaded again in the same browser session: the session stores
\* keep their data, the layout is built anew and the callbacks run untriggered.
PageLoad ==
    /\ \E out \in {fetch_and_display_data("", <<>>, <<>>, <<2018, 2023>>,
                        imported_data_store, data_store, ui_state_store, <<>>)} :
         \E rasterizes \in RasterChoices(out.charts_container, Rasterizes) :
            ApplyDisplay(out, Ctx("", <<>>, <<>>), rasterizes)
    /\ use_imported_disabled' = TRUE
    /\ upload_status' = NO_NOTICE
    /\ UNCHANGED imported_data_store
    /\ UNCHANGED <<dirVars, runVars, exportVars>>

\* A file is dropped on the upload area (or the upload is emptied).
Upload ==
    /\ \E has_contents \in BOOLEAN, file \in UploadedFiles :
         \E out \in {handle_file_upload(has_contents, file)} :
             /\ imported_data_store' = out.imported_data_store
             /\ upload_status' = out.upload_status
             /\ use_imported_disabled' = out.disabled
             /\ triggered' = UploadCtx(has_contents, file)
    /\ discarded' = EmptyStore
    /\ UNCHANGED <<data_store, ui_state_store, chart_images_store, charts_container,
                   export_status>>
    /\ UNCHANGED <<dirVars, runVars, exportVars>>

\* The figures update_chart_types returns reach the graphs when there is one
\* per graph; otherwise the framework rejects the outputs.
WithFigures(cards, chart_types, figures) ==
    [k \in DOMAIN cards |->
        [cards[k] EXCEPT !.chart_type = chart_types[k],
                         !.figure = IF Len(figures) = Len(cards) THEN figures[k] ELSE @]]

\* The chart-type values after the user sets the dropdown of the k-th chart to t.
Selected(cards, k, t) ==
    [j \in DOMAIN cards |-> IF j = k THEN t ELSE cards[j].chart_type]

\* The user sets the chart-type dropdown of the k-th chart to t.
ChangeChartType ==
    /\ \E cards \in {Charts(charts_container)} :
         \E k \in DOMAIN cards, t \in ChartTypeChoices :
           /\ t # cards[k].chart_type
           /\ \E shown \in {WithFigures(cards, Selected(cards, k, t),
                                update_chart_types(Selected(cards, k, t), data_store,
                                                   ui_state_store))} :
                /\ charts_container' = shown
                /\ \E rasterizes \in RasterChoices(shown, Rasterizes) :
                      chart_images_store' =
                          ChainedImages(shown, ui_state_store, rasterizes)
    /\ triggered' = Ctx("chart-type", <<>>, <<>>)
    /\ discarded' = EmptyStore
    /\ UNCHANGED <<data_store, imported_data_store, ui_state_store, use_imported_disabled,
                   upload_status, export_status>>
    /\ UNCHANGED <<dirVars, runVars, exportVars>>

\* "Clear All Data" clicked.
ClearAll ==
    /\ data_store' = clear_all_data.data_store
    /\ imported_data_store' = clear_all_data.imported_data_store
    /\ ui_state_store' = clear_all_data.ui_state_store
    /\ chart_images_store' = clear_all_data.chart_images_store
    /\ charts_container' = clear_all_data.charts_container
    /\ use_imported_disabled' = clear_all_data.use_imported_disabled
    /\ upload_status' = clear_all_data.upload_status
    /\ triggered' = ClearCtx(triggered.prop_id = "clear-all-btn")
    /\ discarded' = data_store
    /\ UNCHANGED export_status
    /\ UNCHANGED <<dirVars, runVars, exportVars>>

\* fetch_all_countries is called (load_countries, or the start of the process).
CallFetchAllCountries ==
    /\ \E outcome \in DirectoryOutcomes : fetch_all_countries(outcome)
    /\ UNCHANGED <<now, uiVars, runVars, exportVars>>

\* Time passes.
MaxNow == 259200
TickSteps == {21600, 86400}

Tick ==
    /\ \E d \in TickSteps : now + d <= MaxNow /\ now' = now + d
    /\ UNCHANGED <<countries_cache, cache_timestamp, dir_call, uiVars, runVars, exportVars>>

\* The fractions of a second, in milliseconds, at which a click arrives.
Millis == {0, 500}

\* The outputs of handle_exports reach the page; the file written is in the
\* exports directory.
ApplyExport(out, prop_id) ==
    /\ export_status' = out.export_status
    /\ last_export' = out.export
    /\ exports_made' = exports_made + 1
    /\ exports_dir' = IF out.export.result.written
                      THEN exports_dir \cup {out.export.result.path} ELSE exports_dir
    /\ triggered' = Ctx(prop_id, <<>>, <<>>)
    /\ discarded' = EmptyStore
    /\ UNCHANGED <<data_store, imported_data_store, ui_state_store, chart_images_store,
                   charts_container, use_imported_disabled, upload_status>>
    /\ UNCHANGED <<dirVars, runVars>>

\* "Export to CSV" clicked; the button is there once a dataset was displayed.
ExportCsvClick ==
    /\ data_store # EmptyStore
    /\ exports_made < MaxExports
    /\ \E ms \in Millis, io_ok \in BOOLEAN :
          ApplyExport(handle_exports("export-csv-btn", data_store, chart_images_store,
                                     Strftime(now * MS_PER_SECOND + ms), <<>>, io_ok),
                      "export-csv-btn")

\* "Export to PDF" clicked.
ExportPdfClick ==
    /\ data_store # EmptyStore
    /\ exports_made < MaxExports
    /\ \E ms \in Millis, io_ok \in BOOLEAN,
          embeds \in [DOMAIN chart_images_store -> BOOLEAN] :
          ApplyExport(handle_exports("export-pdf-btn", data_store, chart_images_store,
                                     Strftime(now * MS_PER_SECOND + ms), embeds, io_ok),
                      "export-pdf-btn")

\* A second passes.
TickSecond ==
    /\ now < MaxSeconds
    /\ now' = now + 1
    /\ UNCHANGED <<countries_cache, cache_timestamp, dir_call, uiVars, runVars, exportVars>>

\* "Use Imported Data" clicked; the images of the charts may fail to rasterize.
UseImportedClickAnyImage == UseImportedClickOver(BOOLEAN)

\* One run of fetch_country_data on the drawn arguments and source.
RunFetcher ==
    /\ f_pc = "ready"
    /\ f_out' = fetch_country_data(f_args.country_codes, f_args.start_year,
                                   f_args.end_year, f_args.indicators, f_src)
    /\ f_pc' = "done"
    /\ UNCHANGED <<f_args, f_src, uiVars, dirVars, uploadVars, exportVars>>
    /\ UNCHANGED <<chartVars, roundTripVars>>

\* One run of handle_file_upload on the drawn file.
RunUpload ==
    /\ u_pc = "ready"
    /\ u_out' = handle_file_upload(TRUE, u_file)
    /\ u_pc' = "done"
    /\ UNCHANGED <<u_file, uiVars, dirVars, fetchVars, exportVars>>
    /\ UNCHANGED <<chartVars, roundTripVars>>

\* The drawn dataset is exported to CSV and the written file is uploaded.
RunRoundTrip ==
    /\ r_pc = "ready"
    /\ \E exported \in {export_to_csv(r_df, <<"economic_data_", Strftime(0), ".csv">>, TRUE)} :
          r_out' = IF exported.written
                   THEN handle_file_upload(TRUE, read_csv(exported.path, exported.content))
                   ELSE NoUpload
    /\ r_pc' = "done"
    /\ UNCHANGED <<r_df, uiVars, dirVars, fetchVars, uploadVars, chartVars, exportVars>>

\* One call of create_chart on the drawn arguments.
RunChart ==
    /\ c_pc = "ready"
    /\ c_out' = create_chart(c_args.df, c_args.indicator, c_args.chart_type,
                             c_args.countries)
    /\ c_pc' = "done"
    /\ UNCHANGED <<c_args, uiVars, dirVars, fetchVars, uploadVars, exportVars>>
    /\ UNCHANGED roundTripVars

-----------------------------------------------------------------------------
(* Specifications *)

NoRun == [raised |-> FALSE, log |-> <<>>, all_data |-> <<>>, df |-> <<>>]

InitUi ==
    /\ data_store = EmptyStore
    /\ imported_data_store = EmptyStore
    /\ ui_state_store = EmptyUiState
    /\ chart_images_store = <<>>
    /\ charts_container = <<>>
    /\ use_imported_disabled = TRUE
    /\ upload_status = NO_NOTICE
    /\ export_status = NO_EXPORT_NOTICE
    /\ discarded = EmptyStore
    /\ triggered = Ctx("", <<>>, <<>>)

InitDirectory ==
    /\ countries_cache = NoCache
    /\ cache_timestamp = -1
    /\ now = 0
    /\ dir_call = Call(FALSE, 0, FALSE, "", <<>>, <<>>)

InitFetcherIdle ==
    /\ f_pc = "idle"
    /\ f_args = [country_codes |-> <<>>, indicators |-> <<>>,
                 start_year |-> 2010, end_year |-> 2023]
    /\ f_src = <<>>
    /\ f_out = NoRun

InitUploadIdle ==
    /\ u_pc = "idle"
    /\ u_file = NoFile
    /\ u_out = NoUpload

InitExports ==
    /\ exports_dir = {}
    /\ last_export = NoExport
    /\ exports_made = 0

InitChartIdle ==
    /\ c_pc = "idle"
    /\ c_args = [df |-> <<>>, indicator |-> "", chart_type |-> "", countries |-> <<>>]
    /\ c_out = Placeholder(<<>>)

InitRoundTripIdle ==
    /\ r_pc = "idle"
    /\ r_df = <<>>
    /\ r_out = NoUpload

InitRunsIdle == InitFetcherIdle /\ InitUploadIdle /\ InitChartIdle /\ InitRoundTripIdle

Init == InitUi /\ InitDirectory /\ InitRunsIdle /\ InitExports

\* The dashboard as its user drives it.
Next ==
    \/ FetchClick
    \/ UseImportedClick
    \/ PageLoad
    \/ Upload
    \/ ChangeChartType
    \/ ClearAll

Spec == Init /\ [][Next]_vars

\* The country directory over time.
NextDirectory == CallFetchAllCountries \/ Tick

SpecDirectory == Init /\ [][NextDirectory]_vars

\* fetch_country_data on every list of codes and labels within the bounds and
\* every combination of outcomes of its requests.
FetcherLabels == {GDP, INCOME, UNLISTED}

InitFetcher ==
    /\ InitUi
    /\ InitDirectory
    /\ InitUploadIdle
    /\ InitChartIdle
    /\ InitRoundTripIdle
    /\ InitExports
    /\ f_pc = "ready"
    /\ f_out = NoRun
    /\ \E cs \in SeqsUpTo(CountryCodes, MaxCodes), is \in SeqsUpTo(FetcherLabels, MaxLabels) :
         /\ f_args = [country_codes |-> cs, indicators |-> is,
                      start_year |-> 2010, end_year |-> 2023]
         /\ f_src \in [RequestedPairs(cs, is) -> Outcomes]

SpecFetcher == InitFetcher /\ [][RunFetcher]_vars

\* handle_file_upload on every file within the bounds.
Headers ==
    { REQUIRED_COLS,
      <<"value", "year", "indicator", "country_name", "country_code">>,
      <<"country_code", "country_name", "indicator", "year", "value", "region">>,
      <<"country_code", "country_name", "indicator", "value">>,
      <<"country_code", "country_name", "indicator", "year">>,
      <<"region">> }

RowChoices ==
    { Row("USA", "United States", GDP, Num(2020), Num(1)),
      Row("CHN", "China", GDP, Num(2020), Num(2)),
      Row("USA", "United States", GDP, Text, Num(1)),
      Row("USA", "United States", INCOME, Num(2021), Text),
      Row("", "China", GDP, Num(2021), Num(3)) }

InitUpload ==
    /\ InitUi
    /\ InitDirectory
    /\ InitFetcherIdle
    /\ InitChartIdle
    /\ InitRoundTripIdle
    /\ InitExports
    /\ u_pc = "ready"
    /\ u_out = NoUpload
    /\ \E is_csv \in BOOLEAN, columns \in Headers, rows \in SeqsUpTo(RowChoices, MaxRows) :
          u_file = File(is_csv, columns, rows)

SpecUpload == InitUpload /\ [][RunUpload]_vars

\* The exports of an imported dataset over time.
NextExport ==
    \/ Upload
    \/ UseImportedClickAnyImage
    \/ ExportCsvClick
    \/ ExportPdfClick
    \/ TickSecond

SpecExport == Init /\ [][NextExport]_vars

\* create_chart on every dataset, indicator, chart type and country filter
\* within the bounds.
ChartRows ==
    { Record("DEU", "Germany", GDP, 2019, 1),
      Record("DEU", "Germany", GDP, 2021, 2),
      Record("USA", "United States", GDP, 2020, 3),
      Record("USA", "United States", INCOME, 2020, 4) }

ChartFilters == {<<>>, <<"DEU">>, <<"JPN">>, <<"USA", "DEU">>}

InitChart ==
    /\ InitUi
    /\ InitDirectory
    /\ InitFetcherIdle
    /\ InitUploadIdle
    /\ InitRoundTripIdle
    /\ InitExports
    /\ c_pc = "ready"
    /\ c_out = Placeholder(<<>>)
    /\ \E df \in SeqsUpTo(ChartRows, MaxChartRows), indicator \in DOMAIN ALL_INDICATORS,
          chart_type \in ChartTypeChoices, countries \in ChartFilters :
          c_args = [df |-> df, indicator |-> indicator, chart_type |-> chart_type,
                    countries |-> countries]

SpecChart == InitChart /\ [][RunChart]_vars

\* The round trip of every dataset within the bounds.
RoundTripRecords ==
    { Record("USA", "United States", GDP, 2020, 1),
      Record("USA", "United States", GDP, 2021, 305),
      Record("CHN", "China", GROWTH, 2021, -12),
      Record("CHN", "China", INCOME, 2019, 0),
      Record("KOR", "Korea, Rep.", GROWTH, 1999, -7) }

InitRoundTrip ==
    /\ InitUi
    /\ InitDirectory
    /\ InitFetcherIdle
    /\ InitUploadIdle
    /\ InitChartIdle
    /\ InitExports
    /\ r_pc = "ready"
    /\ r_out = NoUpload
    /\ r_df \in SeqsUpTo(RoundTripRecords, MaxRecords)

SpecRoundTrip == InitRoundTrip /\ [][RunRoundTrip]_vars

-----------------------------------------------------------------------------
(* Properties *)

\* The last user event was a click on "Analyze Data" with both selections non-empty.
FetchFired ==
    /\ triggered.prop_id = "fetch-data-btn"
    /\ triggered.countries # <<>>
    /\ triggered.indicators # <<>>

RequestedUiState ==
    [source |-> "api", indicators |-> triggered.indicators,
     countries |-> triggered.countries]

\* C1 as stated: after the fetch trigger fired with a non-empty country and
\* indicator selection, the view state is source = api with the requested
\* indicator list and the requested country list, however many rows the source
\* returned, zero included.
C1_FetchAlwaysLoads == FetchFired => ui_state_store = RequestedUiState

\* C1 amended: after the fetch trigger fired with a non-empty country and
\* indicator selection, either the source returned at least one row and the
\* state is Loaded, with that dataset and the view state source = api with the
\* requested indicator list (not narrowed) and the requested country list, or
\* it returned no row and the state is Empty (no dataset, no view state) with
\* the "No data found" notice in place of the charts.
C1_FetchLoadsUnlessNoRows ==
    FetchFired =>
        \/ /\ data_store # EmptyStore
           /\ ui_state_store = RequestedUiState
           /\ Charts(charts_container) # <<>>
        \/ /\ data_store = EmptyStore
           /\ ui_state_store = EmptyUiState
           /\ charts_container = <<NoDataAlert>>

\* A fetch of two indicators reached Loaded although one of them returned no row.
C1_Witness ==
    /\ FetchFired
    /\ data_store # EmptyStore
    /\ Len(triggered.indicators) = 2
    /\ \E k \in 1..2 : ~HasRows(data_store, triggered.indicators[k])

\* C2: after a fetch or an import-activate that reached Loaded, every indicator
\* of the view state's indicators list has a displayed chart (a placeholder
\* when the dataset has no row of it).
C2_EveryIndicatorHasChart ==
    (triggered.prop_id \in {"fetch-data-btn", "use-imported-btn"}
        /\ ui_state_store # EmptyUiState) =>
        \A k \in DOMAIN ui_state_store.indicators :
            \E c \in DOMAIN Charts(charts_container) :
                Charts(charts_container)[c].indicator = ui_state_store.indicators[k]

\* C3: the state a reset leaves has the dataset, the view state, the displayed
\* charts, the stored chart images and the import buffer all at their initial
\* empty values; the reset is one transition, so no state has only some of
\* them cleared.
C3_ResetClearsAll ==
    triggered.prop_id = "clear-all-btn" =>
        /\ data_store = EmptyStore
        /\ ui_state_store = EmptyUiState
        /\ charts_container = <<>>
        /\ chart_images_store = <<>>
        /\ imported_data_store = EmptyStore
        /\ use_imported_disabled

\* The reset has acted.
C3_Witness ==
    /\ triggered.prop_id = "clear-all-btn"
    /\ data_store = EmptyStore
    /\ imported_data_store = EmptyStore

\* The chart type selected for an indicator, or "" when it has no chart.
TypeOf(children, indicator) ==
    LET cards == Charts(children)
        at == {k \in DOMAIN cards : cards[k].indicator = indicator}
    IN  IF at = {} THEN "" ELSE cards[CHOOSE k \in at : TRUE].chart_type

\* C4: a transition (other than the user's own change of a chart type) that
\* leaves the indicators list of the view state unchanged preserves the chart
\* type selected for every indicator that stays displayed.
C4_TypesKeptWhileIndicatorsKept ==
    [][(/\ ui_state_store # EmptyUiState
        /\ ui_state_store'.indicators = ui_state_store.indicators
        /\ triggered'.prop_id # "chart-type") =>
            \A ind \in Range(ui_state_store.indicators) :
                (TypeOf(charts_container, ind) # "" /\ TypeOf(charts_container', ind) # "")
                    => TypeOf(charts_container', ind) = TypeOf(charts_container, ind)]_vars

\* C5: a change of one chart's type leaves the displayed indicators and the
\* chart type of every other chart as they were, and afterwards each chart's
\* figure is the one create_chart renders for that chart's own indicator with
\* that chart's own selected type.
C5_ChartTypesIndependent ==
    [][triggered'.prop_id = "chart-type" =>
        LET before == Charts(charts_container)
            after == Charts(charts_container')
        IN  /\ Len(after) = Len(before)
            /\ \A k \in DOMAIN after : after[k].indicator = before[k].indicator
            /\ Cardinality({k \in DOMAIN after :
                                after[k].chart_type # before[k].chart_type}) <= 1
            /\ \A k \in DOMAIN after :
                    after[k].figure =
                        create_chart(data_store', after[k].indicator, after[k].chart_type,
                                     ui_state_store'.countries)]_vars

\* Two charts are displayed with two different chart types, neither the default.
C5_Witness ==
    /\ triggered.prop_id = "chart-type"
    /\ Len(Charts(charts_container)) = 2
    /\ Charts(charts_container)[1].chart_type = "bar"
    /\ Charts(charts_container)[2].chart_type = "heatmap"
    /\ Charts(charts_container)[1].figure.kind = "bar"
    /\ Charts(charts_container)[2].figure.kind = "heatmap"

\* The pairs of one run in the order of the loops: country-major, the labels
\* that are no key of the catalog left out.
LoopPairs(country_codes, indicators) ==
    LET n == Len(country_codes) * Len(indicators)
        all == [p \in 1..n |->
                   <<country_codes[((p - 1) \div Len(indicators)) + 1],
                     indicators[((p - 1) % Len(indicators)) + 1]>>]
    IN  SelectSeq(all, LAMBDA pair : pair[2] \in DOMAIN ALL_INDICATORS)

Requests(log) == SelectSeq(log, LAMBDA e : e.ev = "request")

\* The outcomes in which the whole response of a pair is processed without error.
CleanOutcomes == {"no_data", "one_point", "null_only", "null_then_point"}

\* The records a cleanly processed pair yields.
RecordsOf(code, label, kind) ==
    IF kind \in {"one_point", "null_then_point"}
    THEN {Record(code, CountryName(code), label, 2020, 1)}
    ELSE {}

\* C6: a run of fetch_country_data returns a dataset, whatever the outcome of
\* each request: it does not raise, it requests every pair of the loops in
\* order whether or not an earlier pair failed, and the dataset holds the
\* records of every pair that was processed without error.
C6_FetcherNeverRaises ==
    f_pc = "done" =>
        /\ ~f_out.raised
        /\ LET pairs == LoopPairs(f_args.country_codes, f_args.indicators)
               requests == Requests(f_out.log)
           IN  /\ Len(requests) = Len(pairs)
               /\ \A k \in DOMAIN pairs :
                    /\ requests[k].country = pairs[k][1]
                    /\ requests[k].indicator = pairs[k][2]
                    /\ f_src[pairs[k]] \in CleanOutcomes =>
                         RecordsOf(pairs[k][1], pairs[k][2], f_src[pairs[k]])
                            \subseteq Range(f_out.df)

\* A run whose first request failed and whose second returned a point.
C6_Witness ==
    /\ f_pc = "done"
    /\ Len(Requests(f_out.log)) >= 2
    /\ LET pairs == LoopPairs(f_args.country_codes, f_args.indicators)
       IN  /\ f_src[pairs[1]] \in {"network_error", "http_error", "point_then_malformed"}
           /\ f_src[pairs[2]] = "one_point"
           /\ pairs[2] # pairs[1]
    /\ f_out.df # <<>>

\* C7: the dataset holds records only of pairs that were processed completely
\* without error; a pair whose request failed, at whichever observation,
\* contributes no record.
C7_FailedPairContributesNothing ==
    f_pc = "done" =>
        \A k \in DOMAIN f_out.df :
            f_src[<<f_out.df[k].country_code, f_out.df[k].indicator>>] \in CleanOutcomes

\* the time to live of the country directory, in seconds (24 hours)
TTL_SECONDS == 86400

\* C8: a call made while a cache exists is served from the cache without a
\* request when less than 24 hours have passed since the cache was written,
\* and issues a request when 24 hours or more have passed.
C8_CacheExpiresAfterTtl ==
    dir_call.cached =>
        /\ dir_call.elapsed < TTL_SECONDS =>
                ~dir_call.requested /\ dir_call.from = "cache"
        /\ dir_call.elapsed >= TTL_SECONDS => dir_call.requested

\* C9: in the log of one run, every request but the last is followed by the
\* delay before the next request.
C9_DelayBetweenRequests ==
    f_pc = "done" =>
        \A k \in DOMAIN f_out.log :
            (f_out.log[k].ev = "request" /\ k < Len(f_out.log))
                => f_out.log[k + 1].ev = "sleep"

\* C10: store_chart_images records one entry per displayed chart, and the
\* entry of the k-th chart carries that chart's indicator name and that
\* chart's selected chart type.
C10_ImageEntriesMatchCharts ==
    LET cards == Charts(charts_container)
    IN  cards # <<>> =>
            /\ Len(chart_images_store) = Len(cards)
            /\ \A k \in DOMAIN cards :
                /\ chart_images_store[k].indicator = cards[k].indicator
                /\ chart_images_store[k].chart_type = cards[k].chart_type

\* The last user event was the upload of a file named *csv* whose header lacks
\* a required column.
LacksColumn(ctx) ==
    /\ ctx.prop_id = "upload-data"
    /\ ctx.has_contents
    /\ ctx.file.is_csv
    /\ \E k \in DOMAIN REQUIRED_COLS : REQUIRED_COLS[k] \notin Range(ctx.file.columns)

\* C11: the upload of a file that lacks a required column shows the validation
\* notice, produces no import buffer (the button stays disabled) and leaves the
\* dataset, the view state and the displayed charts as they were, whatever
\* state the dashboard was in.
C11_RejectedUploadChangesNothing ==
    [][LacksColumn(triggered') =>
        /\ upload_status' = MISSING_COLUMNS
        /\ imported_data_store' = EmptyStore
        /\ use_imported_disabled'
        /\ data_store' = data_store
        /\ ui_state_store' = ui_state_store
        /\ charts_container' = charts_container
        /\ chart_images_store' = chart_images_store]_vars

\* A file without the year column was uploaded while a dataset was loaded.
C11_Witness ==
    /\ LacksColumn(triggered)
    /\ "year" \notin Range(triggered.file.columns)
    /\ upload_status = MISSING_COLUMNS
    /\ data_store # EmptyStore
    /\ ui_state_store # EmptyUiState

\* C12: a file is accepted (an import buffer is produced) only if its set of
\* columns is exactly the five required columns, in any order.
C12_AcceptedOnlyExactColumns ==
    (u_pc = "done" /\ ~u_out.disabled) =>
        /\ u_file.is_csv
        /\ Range(u_file.columns) = Range(REQUIRED_COLS)

\* The last user event was a click on "Use Imported Data" with a filled buffer.
ImportFired ==
    /\ triggered.prop_id = "use-imported-btn"
    /\ imported_data_store # EmptyStore

\* C13 as stated: after import-activate with a non-empty import buffer the view
\* state is source = imported with the distinct indicators of the imported
\* table and countries unset.
C13_ImportLeavesCountriesUnset ==
    ImportFired =>
        /\ ui_state_store.source = "imported"
        /\ Range(ui_state_store.indicators) =
                {imported_data_store[k].indicator : k \in DOMAIN imported_data_store}
        /\ ui_state_store.countries = <<>>

\* C13 amended: after import-activate with a non-empty import buffer the
\* dataset is the imported table and the view state is source = imported,
\* indicators = the distinct indicator values of the table (each once) and
\* countries = the distinct country codes of the table (each once), a filter
\* that excludes no row: every chart shows the figure rendered without a
\* country filter, so every country present in the import is displayed.
C13_ImportListsAllCountries ==
    ImportFired =>
        /\ data_store = imported_data_store
        /\ ui_state_store.source = "imported"
        /\ Range(ui_state_store.indicators) =
                {imported_data_store[k].indicator : k \in DOMAIN imported_data_store}
        /\ Cardinality(Range(ui_state_store.indicators)) = Len(ui_state_store.indicators)
        /\ Range(ui_state_store.countries) =
                {imported_data_store[k].country_code : k \in DOMAIN imported_data_store}
        /\ Cardinality(Range(ui_state_store.countries)) = Len(ui_state_store.countries)
        /\ LET cards == Charts(charts_container)
           IN  /\ Len(cards) = Len(ui_state_store.indicators)
               /\ \A k \in DOMAIN cards :
                    /\ cards[k].figure =
                            create_chart(data_store, cards[k].indicator, "line", <<>>)
                    /\ cards[k].figure =
                            create_chart(data_store, cards[k].indicator, "line",
                                         ui_state_store.countries)

\* An import with two countries and a repeated indicator was activated.
C13_Witness ==
    /\ ImportFired
    /\ Len(data_store) = 3
    /\ Len(ui_state_store.indicators) = 2
    /\ Len(ui_state_store.countries) = 2

\* C14: after a reset that discarded a loaded dataset, no chart is displayed,
\* a page load displays none, update_chart_types returns no figure, and
\* create_chart on the dataset of the stores returns the "No data available"
\* placeholder for every indicator, chart type and country filter: no figure
\* holds a row of the discarded dataset.
C14_RenderAfterResetIsPlaceholder ==
    (triggered.prop_id = "clear-all-btn" /\ discarded # EmptyStore) =>
        /\ Charts(charts_container) = <<>>
        /\ fetch_and_display_data("", <<>>, <<>>, <<2018, 2023>>, imported_data_store,
                                  data_store, ui_state_store, <<>>).charts_container = <<>>
        /\ \A t \in ChartTypeChoices :
             /\ update_chart_types(<<t>>, data_store, ui_state_store) = <<>>
             /\ \A ind \in DOMAIN ALL_INDICATORS, sc \in CountryChoices :
                    /\ create_chart(data_store, ind, t, sc) =
                            Placeholder(<<"No data available">>)
                    /\ create_chart(data_store, ind, t, sc).rows = <<>>

\* A reset discarded a dataset of two records.
C14_Witness ==
    /\ triggered.prop_id = "clear-all-btn"
    /\ Len(discarded) >= 2
    /\ data_store = EmptyStore

\* C15: every call of fetch_all_countries returns at least one country: the
\* hardcoded list when the request failed, a non-empty mapping otherwise,
\* calls served from the cache included.
C15_DirectoryNeverEmpty ==
    dir_call.from # "" =>
        /\ dir_call.result # <<>>
        /\ dir_call.from = "fallback" => dir_call.result = FallbackCountries

\* No two records of df share country code, indicator and year.
NoRepeatedTriple(df) ==
    \A j, k \in DOMAIN df :
        (/\ df[j].country_code = df[k].country_code
         /\ df[j].indicator = df[k].indicator
         /\ df[j].year = df[k].year) => j = k

\* C16: in the dataset of the import path (the import buffer an uploaded file
\* produces) and in the dataset of the fetch path (what fetch_country_data
\* returns), no two records share the triple (country code, indicator, year).
C16_NoRepeatedTriple ==
    /\ u_pc = "done" => NoRepeatedTriple(u_out.imported_data_store)
    /\ f_pc = "done" => NoRepeatedTriple(f_out.df)

\* The observations with a non-null value that the requests of one run
\* returned: <<k, j>> is the j-th observation of the response to the k-th
\* request.
NonNullObservations ==
    LET pairs == LoopPairs(f_args.country_codes, f_args.indicators)
        responses == [k \in DOMAIN pairs |-> SourceResponse(pairs[k][1], f_src[pairs[k]])]
    IN  {kj \in UNION {{<<k, j>> : j \in DOMAIN responses[k].entries} : k \in DOMAIN pairs} :
            ~responses[kj[1]].entries[kj[2]].null}

\* The record of the observation <<k, j>>.
RecordOfObservation(kj) ==
    LET pair == LoopPairs(f_args.country_codes, f_args.indicators)[kj[1]]
        entry == SourceResponse(pair[1], f_src[pair]).entries[kj[2]]
    IN  Record(pair[1], entry.country, pair[2], entry.date, entry.value)

\* C17: in a run in which no response is malformed, the dataset holds exactly
\* one record per returned observation with a non-null value (same country,
\* indicator, year and value) and no other record: an observation with a null
\* value yields none, it is not stored as zero.
C17_OneRecordPerNonNullObservation ==
    (/\ f_pc = "done"
     /\ \A pair \in DOMAIN f_src : f_src[pair] # "point_then_malformed") =>
        LET observed == NonNullObservations
            records == [kj \in observed |-> RecordOfObservation(kj)]
            df == f_out.df
        IN  /\ Len(df) = Cardinality(observed)
            /\ \A r \in Range(df) \cup {records[kj] : kj \in observed} :
                    Cardinality({k \in DOMAIN df : df[k] = r}) =
                    Cardinality({kj \in observed : records[kj] = r})

\* The source returned one point for USA/2020 and a null value for CHN/2021:
\* the dataset holds the USA/2020 record and nothing else.
C17_Witness ==
    /\ f_pc = "done"
    /\ f_args.country_codes = <<"USA", "CHN">>
    /\ f_args.indicators = <<GDP>>
    /\ f_src[<<"USA", GDP>>] = "one_point"
    /\ f_src[<<"CHN", GDP>>] = "null_only"
    /\ f_out.df = <<Record("USA", "United States", GDP, 2020, 1)>>

\* The step is an export click.
ExportStep == exports_made' = exports_made + 1

\* C18: a PDF export whose file can be written produces the document, with
\* the summary and one section per chart of the chart list, whether or not
\* the image of a chart is missing or cannot be embedded.
C18_PdfExportSurvivesImageFailure ==
    (last_export.kind = "pdf" /\ last_export.io_ok) =>
        /\ last_export.result.path # NO_PATH
        /\ last_export.result.content.summary # <<>>
        /\ Len(last_export.result.content.sections) = Len(chart_images_store)

\* C19: an export click, whether the export succeeds or fails, leaves the
\* dataset, the view state, the charts with their chart types, the chart
\* images and the import buffer unchanged; a failed export returns no path,
\* writes no file and shows the failure notice, a successful one returns the
\* path of the file it wrote and shows it in the success notice; an I/O error
\* makes the export fail, and a CSV export fails only by an I/O error.
C19_ExportChangesNoState ==
    [][ExportStep =>
        /\ UNCHANGED <<data_store, ui_state_store, charts_container, chart_images_store,
                       imported_data_store, use_imported_disabled, upload_status>>
        /\ LET e == last_export'
           IN  /\ ~e.io_ok => e.result.path = NO_PATH
               /\ (e.kind = "csv" /\ e.io_ok) => e.result.path # NO_PATH
               /\ e.result.path = NO_PATH =>
                    /\ export_status' = IF e.kind = "csv" THEN <<CSV_FAILED>>
                                        ELSE <<PDF_FAILED>>
                    /\ exports_dir' = exports_dir
               /\ e.result.path # NO_PATH =>
                    /\ export_status' = <<IF e.kind = "csv" THEN CSV_EXPORTED
                                          ELSE PDF_EXPORTED>> \o Basename(e.result.path)
                    /\ e.result.path \in exports_dir']_vars

\* A CSV export failed with an I/O error after a PDF export had succeeded.
C19_Witness ==
    /\ exports_made = 2
    /\ last_export.kind = "csv"
    /\ ~last_export.io_ok
    /\ export_status = <<CSV_FAILED>>
    /\ data_store # EmptyStore
    /\ \E path \in exports_dir : path[2] = "pdf"

\* C20: a CSV export never writes to the path of a file that an earlier
\* export wrote.
C20_CsvPathsUnique ==
    [][(ExportStep /\ last_export'.kind = "csv" /\ last_export'.result.written) =>
            last_export'.result.path \notin exports_dir]_vars

\* The rows create_chart plots for its arguments: those of the indicator and,
\* under a country filter, of the countries of the filter.
FilteredRows(args) ==
    SelectSeq(args.df, LAMBDA r : /\ r.indicator = args.indicator
                                  /\ args.countries # <<>> =>
                                        r.country_code \in Range(args.countries))

\* C21: the heatmap of an indicator has a cell for every country of the
\* filtered rows and every year from their first to their last year, and a
\* cell without an observation holds 0.
C21_HeatmapCoversYearSpan ==
    (c_pc = "done" /\ c_out.kind = "heatmap") =>
        LET rows == FilteredRows(c_args)
            years == {rows[k].year : k \in DOMAIN rows}
            first == -MaxOf({-y : y \in years})
            last == MaxOf(years)
        IN  \A c \in {rows[k].country_name : k \in DOMAIN rows}, y \in first..last :
                \E cell \in c_out.grid :
                    /\ cell.country_name = c
                    /\ cell.year = y
                    /\ (\A k \in DOMAIN rows :
                            ~(rows[k].country_name = c /\ rows[k].year = y))
                          => (cell.sum = 0 /\ cell.filled)

\* How often x occurs in the sequence s.
Occurrences(s, x) == Cardinality({k \in DOMAIN s : s[k] = x})

C23_ResetIdempotent ==
    [][(triggered.prop_id = "clear-all-btn" /\ triggered'.prop_id = "clear-all-btn") =>
        /\ UNCHANGED <<data_store, imported_data_store, ui_state_store,
                       chart_images_store, charts_container, use_imported_disabled,
                       upload_status, export_status>>
        /\ data_store' = EmptyStore
        /\ ui_state_store' = EmptyUiState
        /\ Charts(charts_container') = <<>>
        /\ chart_images_store' = <<>>
        /\ imported_data_store' = EmptyStore]_vars

\* Two resets in a row have been made.
C23_Witness ==
    /\ triggered.prop_id = "clear-all-btn"
    /\ triggered.again
    /\ data_store = EmptyStore
    /\ imported_data_store = EmptyStore

\* The last run uploaded a file named *csv* that has the required columns.
UploadedWithRequiredCols ==
    /\ u_pc = "done"
    /\ u_file.is_csv
    /\ Range(REQUIRED_COLS) \subseteq Range(u_file.columns)

\* The records of the rows kept, in file order.
RowRecords(kept) ==
    [k \in DOMAIN kept |->
        Record(kept[k].country_code, kept[k].country_name, kept[k].indicator,
               kept[k].year.v, kept[k].value.v)]

C27_DirectoryIsQualifyingEntriesByName ==
    dir_call.from = "source" =>
        LET list == dir_call.response
            result == dir_call.result
            qualifying == {k \in DOMAIN list : /\ list[k].capitalCity
                                               /\ list[k].longitude
                                               /\ list[k].latitude}
        IN  /\ Range(result) = {[name |-> list[k].name, id |-> list[k].id] : k \in qualifying}
            /\ Len(result) = Cardinality(qualifying)
            /\ \A i, j \in DOMAIN result :
                    i < j => StrRank(result[i].name) < StrRank(result[j].name)

\* The source sent its list: the call returned China and the United States,
\* in this order, and none of the four other entries.
C27_Witness ==
    /\ dir_call.from = "source"
    /\ Len(dir_call.response) = 6
    /\ dir_call.result = <<[name |-> "China", id |-> "CHN"],
                           [name |-> "United States", id |-> "USA"]>>

\* C28: the cache and its timestamp change only in a call of
\* fetch_all_countries that the source answered, and then both are written:
\* the cache becomes the mapping the call returns and the timestamp the time
\* of the call.  A call whose request failed leaves both as they were and
\* returns the hardcoded list, which the cache never holds, and the call that
\* follows a failed one sends a request.
C28_CacheWrittenOnlyOnSuccess ==
    [][/\ (countries_cache' # countries_cache \/ cache_timestamp' # cache_timestamp) =>
            /\ dir_call'.from = "source"
            /\ dir_call'.requested
            /\ countries_cache' = [present |-> TRUE, items |-> dir_call'.result]
            /\ cache_timestamp' = now
            /\ now' = now
       /\ (dir_call' # dir_call /\ dir_call'.from = "fallback") =>
            /\ UNCHANGED <<countries_cache, cache_timestamp>>
            /\ dir_call'.result = FallbackCountries
       /\ countries_cache'.items # FallbackCountries
       /\ (dir_call.from = "fallback" /\ dir_call' # dir_call) =>
            dir_call'.requested]_vars

\* A request failed after time had passed: there is still no cache and no
\* timestamp.
C28_Witness ==
    /\ dir_call.from = "fallback"
    /\ dir_call.requested
    /\ now > 0
    /\ countries_cache = NoCache
    /\ cache_timestamp = -1

\* C29: the dataset store holds a dataset exactly when the view-state store
\* holds a view state, whatever sequence of fetch, import-activate, upload,
\* chart-type change, page load and reset led to the state.
C29_DatasetIffViewState ==
    (data_store # EmptyStore) <=> (ui_state_store # EmptyUiState)

\* A fetch loaded a dataset while an import buffer was pending: both stores
\* are filled.
C29_Witness ==
    /\ triggered.prop_id = "fetch-data-btn"
    /\ imported_data_store # EmptyStore
    /\ data_store # EmptyStore
    /\ ui_state_store # EmptyUiState

\* The last user event was a trigger that fetch_and_display_data rejects: a
\* click on "Analyze Data" with no country or no indicator selected, or a
\* click on "Use Imported Data" while the import buffer holds no row.
RejectedTrigger ==
    \/ /\ triggered.prop_id = "fetch-data-btn"
       /\ triggered.countries = <<>> \/ triggered.indicators = <<>>
    \/ /\ triggered.prop_id = "use-imported-btn"
       /\ imported_data_store = EmptyStore

\* C30: after a rejected trigger there is no dataset, no view state and no
\* chart, whether or not a dataset was loaded before.
C30_RejectedTriggerEmptiesStores ==
    RejectedTrigger =>
        /\ data_store = EmptyStore
        /\ ui_state_store = EmptyUiState
        /\ charts_container = <<>>

\* "Use Imported Data" was clicked after an upload whose rows were all
\* dropped, while a dataset was loaded: the dataset is gone.
C30_Witness ==
    /\ triggered.prop_id = "use-imported-btn"
    /\ imported_data_store = EmptyStore
    /\ upload_status = UPLOADED
    /\ discarded # EmptyStore
    /\ data_store = EmptyStore

====
